---- MODULE Spec2Model ----
(***************************************************************************)
(* Model of mtools-kafka (src/src/main.rs): the egui desktop tool that     *)
(* browses topics, pulls a bounded batch of messages, and commits a        *)
(* consumer group's offset by hand.  One action per click handler of       *)
(* ToolApp::update; the broker and the kafka client library are modelled   *)
(* by what the calls made in main.rs return.                               *)
(*                                                                         *)
(* Integers are scaled: usize is WordBits wide and unsigned, i64 is        *)
(* WordBits wide and signed (two's complement), so that the cast           *)
(* `as i64` and the subtraction of line 500 wrap as they do at 64 bits.    *)
(***************************************************************************)
EXTENDS Integers, Sequences, FiniteSets, TLC

\* ------------------------------------------------------------------ bounds
WordBits == 3
MaxHigh == 2
MaxRows == 3
MaxBatch == 2

UsizeMax == 2 ^ WordBits - 1
I64Max == 2 ^ (WordBits - 1) - 1
I64Min == 0 - 2 ^ (WordBits - 1)

\* ------------------------------------------------------- program constants
KAFKA_GROUP_ID == "mtools"

\* --------------------------------------------------------- the cluster
\* One cluster with a two-partition topic and a one-partition topic.
Topics == {"t1", "t2"}

Partitions(topic) == IF topic = "t1" THEN {0, 1} ELSE IF topic = "t2" THEN {0} ELSE {}

TPs == {<<"t1", 0>>, <<"t1", 1>>, <<"t2", 0>>}

\* Text a user can type into the consumer-group field.
UserGroups == {"mtools", "ug"}

Groups == {KAFKA_GROUP_ID} \cup UserGroups

\* Offsets a user can put into the commit-offset DragValue (an i64).
CommitTargets == (0 - 1) .. (IF MaxHigh < I64Max THEN MaxHigh + 1 ELSE I64Max)

VARIABLES
  low, high,            \* broker: watermarks per topic-partition
  committed,            \* broker: committed offset per group and topic-partition, -1 = none
  config,               \* ToolApp.config.kafka_configs
  temp_config,          \* ToolApp.temp_config, the form of the new-profile page
  current_config,       \* ToolApp.current_config
  panel_id,             \* ToolApp.panel_id
  list_panel_id,        \* ToolApp.list_panel_id ("" = None)
  current_topic,        \* ToolApp.current_topic
  current_offset_type,  \* ToolApp.current_offset_type
  current_messages,     \* ToolApp.current_messages
  partition_offsets,    \* ToolApp.partition_offsets
  kafka_producer,       \* ToolApp.kafka_producer ("" = None, else the hosts it was built from)
  send_value,           \* ToolApp.send_value
  send_message,         \* ToolApp.send_message
  poll_rows,            \* ToolApp.poll_rows
  commit_offset,        \* ToolApp.commit_offset
  pc,                   \* "idle", "polling" (inside the pull loop) or "crashed" (a panic unwound main)
  attempt,              \* history: the click on the commit panel's confirm button, if the last step was one
  publish,              \* history: the click on the send panel's confirm button, likewise
  pull,                 \* the locals of the pull handler and its history
  file,                 \* the file .mtools-kafka-config, and the list of the last save_config
  op                    \* history: the save, the topic discovery or the start, if the last step was one

vars == <<low, high, committed, config, temp_config, current_config, panel_id,
          list_panel_id, current_topic, current_offset_type, current_messages,
          partition_offsets, kafka_producer, send_value, send_message, poll_rows,
          commit_offset, pc, attempt, publish, pull, file, op>>

brokerVars == <<low, high, committed>>

\* ------------------------------------------------------------ helpers
Last(s) == s[Len(s)]

\* The orders in which fetch_offsets can list the partitions of a topic.
Perms(topic) ==
  LET ps == Partitions(topic)
  IN {s \in [1 .. Cardinality(ps) -> ps] : \A i, j \in 1 .. Cardinality(ps) : i # j => s[i] # s[j]}

DefaultKafkaConfig == [id |-> "", host |-> "", topics |-> {}, message |-> ""]

DefaultCommitOffset ==
  [start_offset |-> 0, end_offset |-> 0, partition |-> 0, commit_offset |-> 0,
   commit_group |-> "", error_message |-> ""]

NoAttempt == [made |-> FALSE]

NoPublish == [made |-> FALSE]

NoPull == [active |-> FALSE, status |-> "none", topic |-> ""]

\* ------------------------------------------------------- configuration file
\* KafkaConfig.message after a topic discovery ("" = None).
MSG_OK == "connected"
MSG_FAILED == "connection failed"

\* The characters of a text, in units: a host text is as long as its
\* addresses are, and the text of a failed discovery has the error in it.
Units(text) ==
  CASE text = "" -> <<>>
    [] text = "h1,h3" -> <<"h1", ",", "h3">>
    [] text = MSG_FAILED -> <<MSG_FAILED, ": ", "e", "!">>
    [] OTHER -> <<text>>

\* The texts the fields of a profile can hold.
Texts == {"", "h1", "h2", "h1,h3", "c1", "c2", "u1", "u2", MSG_OK, MSG_FAILED} \cup Topics

Join(units) ==
  IF \E t \in Texts : Units(t) = units
  THEN CHOOSE t \in Texts : Units(t) = units
  ELSE "?"

\* A String as serde_json writes it: the characters between two quotes.
Str(text) == <<"'">> \o Units(text) \o <<"'">>

\* A Vec<String> of topic names (the model keeps the names as a set and
\* writes them in one order).
StrArray(names) ==
  <<"[">> \o (IF "t1" \in names THEN Str("t1") ELSE <<>>)
          \o (IF "t2" \in names THEN Str("t2") ELSE <<>>) \o <<"]">>

\* An Option<String>.
StrOption(text) == IF text = "" THEN <<"null">> ELSE Str(text)

\* A KafkaConfig (group_name, name and group_ids are left out of the model).
KafkaConfigJson(r) ==
  <<"{">> \o Str(r.id) \o Str(r.host) \o StrArray(r.topics) \o StrOption(r.message) \o <<"}">>

RECURSIVE KafkaConfigsJson(_)
KafkaConfigsJson(list) ==
  IF list = <<>> THEN <<>> ELSE KafkaConfigJson(Head(list)) \o KafkaConfigsJson(Tail(list))

\* serde_json::to_string(&self.config)
SerdeToString(list) == <<"[">> \o KafkaConfigsJson(list) \o <<"]">>

Fail == [ok |-> FALSE]

\* The parsers of serde_json::from_slice: each reads f from position i and
\* returns the value and the position after it, or fails.
ParseStr(f, i) ==
  IF i > Len(f) \/ f[i] # "'" \/ ~(\E j \in i + 1 .. Len(f) : f[j] = "'")
  THEN Fail
  ELSE LET j == CHOOSE j \in i + 1 .. Len(f) :
                  f[j] = "'" /\ \A k \in i + 1 .. j - 1 : f[k] # "'"
       IN [ok |-> TRUE, value |-> Join(SubSeq(f, i + 1, j - 1)), next |-> j + 1]

RECURSIVE ParseStrArrayFrom(_, _, _)
ParseStrArrayFrom(f, i, acc) ==
  IF i > Len(f) THEN Fail
  ELSE IF f[i] = "]" THEN [ok |-> TRUE, value |-> acc, next |-> i + 1]
  ELSE LET s == ParseStr(f, i)
       IN IF s.ok THEN ParseStrArrayFrom(f, s.next, acc \cup {s.value}) ELSE Fail

ParseStrArray(f, i) ==
  IF i > Len(f) \/ f[i] # "[" THEN Fail ELSE ParseStrArrayFrom(f, i + 1, {})

ParseStrOption(f, i) ==
  IF i <= Len(f) /\ f[i] = "null"
  THEN [ok |-> TRUE, value |-> "", next |-> i + 1]
  ELSE ParseStr(f, i)

ParseKafkaConfig(f, i) ==
  IF i > Len(f) \/ f[i] # "{" THEN Fail
  ELSE LET id == ParseStr(f, i + 1)
           host == ParseStr(f, id.next)
           topics == ParseStrArray(f, host.next)
           message == ParseStrOption(f, topics.next)
       IN IF ~id.ok THEN Fail
          ELSE IF ~host.ok THEN Fail
          ELSE IF ~topics.ok THEN Fail
          ELSE IF ~message.ok THEN Fail
          ELSE IF message.next > Len(f) \/ f[message.next] # "}" THEN Fail
          ELSE [ok |-> TRUE,
                value |-> [id |-> id.value, host |-> host.value,
                           topics |-> topics.value, message |-> message.value],
                next |-> message.next + 1]

RECURSIVE ParseKafkaConfigs(_, _, _)
ParseKafkaConfigs(f, i, acc) ==
  IF i > Len(f) THEN Fail
  ELSE IF f[i] = "]" THEN [ok |-> TRUE, value |-> acc, next |-> i + 1]
  ELSE LET r == ParseKafkaConfig(f, i)
       IN IF r.ok THEN ParseKafkaConfigs(f, r.next, Append(acc, r.value)) ELSE Fail

\* serde_json::from_slice: the whole slice is one value; characters after
\* the value are an error.
SerdeFromSlice(f) ==
  IF f = <<>> \/ f[1] # "[" THEN Fail
  ELSE LET l == ParseKafkaConfigs(f, 2, <<>>)
       IN IF l.ok /\ l.next = Len(f) + 1 THEN l ELSE Fail

NoFile == [exists |-> FALSE, bytes |-> <<>>, saved |-> <<>>]

\* OpenOptions write(true).create(true) and write_all: the file is created
\* when it is missing and is not truncated when it exists, so the bytes are
\* written over its beginning and the bytes after them stay.
WriteAll(f, bytes, list) ==
  [exists |-> TRUE,
   bytes |-> bytes \o SubSeq(f.bytes, Len(bytes) + 1, Len(f.bytes)),
   saved |-> list]

\* The file a run of the tool that holds list in config was started from
\* (no file when it holds no profile).
Stored(list) == IF list = <<>> THEN NoFile ELSE WriteAll(NoFile, SerdeToString(list), list)

NoOp == [kind |-> "none"]

\* KafkaClient::commit_offset as the broker answers it: a commit for a
\* partition the topic does not have, or with an empty group id, is refused;
\* otherwise the broker stores the offset (it does not compare it with the
\* log) unless the request fails (ok = FALSE).
BrokerCommit(c, group, topic, partition, offset, ok) ==
  IF ok /\ group \in Groups /\ <<topic, partition>> \in TPs
  THEN [c EXCEPT ![group][<<topic, partition>>] = offset]
  ELSE c

CommitAccepted(group, topic, partition, ok) ==
  ok /\ group \in Groups /\ <<topic, partition>> \in TPs

\* A panic (a failed unwrap) unwinds out of eframe::run_native: the process
\* ends and every field of ToolApp is gone; the broker keeps its state.
Panic ==
  /\ pc' = "crashed"
  /\ config' = <<>>
  /\ temp_config' = DefaultKafkaConfig
  /\ current_config' = DefaultKafkaConfig
  /\ panel_id' = ""
  /\ list_panel_id' = ""
  /\ current_topic' = ""
  /\ current_offset_type' = ""
  /\ current_messages' = <<>>
  /\ partition_offsets' = <<>>
  /\ kafka_producer' = ""
  /\ send_value' = ""
  /\ send_message' = ""
  /\ poll_rows' = 0
  /\ commit_offset' = DefaultCommitOffset

\* ------------------------------------------------- left panel, tab buttons
TopicClickClearsOnTopicOnly(i, topic) ==
  /\ pc = "idle"
  /\ i \in 1 .. Len(config)
  /\ topic \in config[i].topics
  /\ panel_id' = "list"
  /\ list_panel_id' = "data"
  /\ IF current_config.id # config[i].id
     THEN /\ current_config' = config[i]
          /\ kafka_producer' = ""
     ELSE UNCHANGED <<current_config, kafka_producer>>
  /\ current_messages' = IF topic # current_topic THEN <<>> ELSE current_messages
  /\ current_topic' = topic
  /\ attempt' = NoAttempt
  /\ publish' = NoPublish
  /\ op' = NoOp
  /\ UNCHANGED file
  /\ UNCHANGED <<brokerVars, config, temp_config,
                 current_offset_type, partition_offsets, send_value,
                 send_message, poll_rows, commit_offset, pc, pull>>

TopicClickKeepsProducer(i, topic) ==
  /\ pc = "idle"
  /\ i \in 1 .. Len(config)
  /\ topic \in config[i].topics
  /\ panel_id' = "list"
  /\ list_panel_id' = "data"
  /\ current_config' = IF current_config.id # config[i].id THEN config[i] ELSE current_config
  /\ current_messages' = IF current_config.id # config[i].id \/ topic # current_topic
                         THEN <<>> ELSE current_messages
  /\ current_topic' = topic
  /\ attempt' = NoAttempt
  /\ publish' = NoPublish
  /\ op' = NoOp
  /\ UNCHANGED file
  /\ UNCHANGED <<brokerVars, config, temp_config,
                 current_offset_type, partition_offsets, kafka_producer,
                 send_value, send_message, poll_rows, commit_offset, pc, pull>>

\* A click on a topic label of the stored profile number i.
TopicClick(i, topic) ==
  /\ pc = "idle"
  /\ i \in 1 .. Len(config)
  /\ topic \in config[i].topics
  /\ panel_id' = "list"
  /\ list_panel_id' = "data"
  /\ IF current_config.id # config[i].id
     THEN /\ current_config' = config[i]
          /\ kafka_producer' = ""
     ELSE UNCHANGED <<current_config, kafka_producer>>
  /\ current_messages' = IF current_config.id # config[i].id \/ topic # current_topic
                         THEN <<>> ELSE current_messages
  /\ current_topic' = topic
  /\ attempt' = NoAttempt
  /\ publish' = NoPublish
  /\ op' = NoOp
  /\ UNCHANGED file
  /\ UNCHANGED <<brokerVars, config, temp_config,
                 current_offset_type, partition_offsets, send_value,
                 send_message, poll_rows, commit_offset, pc, pull>>

\* A click on one of the three tab buttons of the list page.
TabClick(tab) ==
  /\ pc = "idle"
  /\ panel_id = "list"
  /\ tab \in {"data", "send_data", "commit_offset"}
  /\ list_panel_id' = tab
  /\ attempt' = NoAttempt
  /\ publish' = NoPublish
  /\ op' = NoOp
  /\ UNCHANGED file
  /\ UNCHANGED <<brokerVars, config, temp_config, current_config, panel_id, current_topic,
                 current_offset_type, current_messages, partition_offsets, kafka_producer,
                 send_value, send_message,
                 poll_rows, commit_offset, pc, pull>>

\* ------------------------------------------------------ commit-offset panel
ERR_BELOW == "offset is below the minimum offset"
ERR_ABOVE == "offset is above the maximum offset"
ERR_BROKER == "broker error"

RefreshOutcomes == {"meta_err", "fetch_err", "ok"}

\* What every frame of the commit-offset panel does before it draws:
\* load_metadata, then fetch_offsets(Earliest) and fetch_offsets(Latest), both
\* unwrapped (fetch_err: one of them fails and the unwrap panics).  order is
\* the order in which fetch_offsets lists the partitions.  Both loops assign
\* start_offset, so the value left is the last latest offset; end_offset is
\* never written.
RefreshPanel(co, pos, topic, outcome, order) ==
  IF outcome = "meta_err"
  THEN [crash |-> FALSE, co |-> co, pos |-> pos]
  ELSE IF outcome = "fetch_err"
  THEN [crash |-> TRUE, co |-> co, pos |-> <<>>]
  ELSE [crash |-> FALSE,
        co |-> [co EXCEPT !.start_offset = high[<<topic, Last(order)>>]],
        pos |-> [k \in 1 .. Len(order) |->
                   [partition |-> order[k], offset |-> high[<<topic, order[k]>>]]]]

\* The two comparisons of the confirm handler.
Validate(co) ==
  IF co.commit_offset < co.start_offset THEN "below"
  ELSE IF co.commit_offset > co.end_offset THEN "above"
  ELSE "accepted"

ToCommitAlways(verdict, pos) == pos

\* The partition offsets the confirm handler walks over with commit_offset.
ToCommit(verdict, pos) == IF verdict = "accepted" THEN pos ELSE <<>>

RECURSIVE ApplyCommits(_, _, _, _, _, _, _)
\* The loop of the accepting branch: one commit_offset call per element of
\* partition_offsets, every call with the same offset; a failing call stores
\* its error text and the loop goes on.
ApplyCommits(c, err, calls, todo, oks, co, topic) ==
  IF Len(calls) = Len(todo)
  THEN [c |-> c, err |-> err, calls |-> calls]
  ELSE LET k == Len(calls) + 1
           p == todo[k].partition
           done == CommitAccepted(co.commit_group, topic, p, oks[k])
       IN ApplyCommits(BrokerCommit(c, co.commit_group, topic, p, co.commit_offset, oks[k]),
                       IF done THEN err ELSE ERR_BROKER,
                       Append(calls, [partition |-> p, offset |-> co.commit_offset, ok |-> done]),
                       todo, oks, co, topic)

OnCommitPanel == pc = "idle" /\ panel_id = "list" /\ list_panel_id = "commit_offset"

\* A frame of the commit-offset panel in which the user changes one of the
\* three input widgets (edit maps the refreshed CommitOffset to the edited one).
PanelFrame(outcome, order, edited) ==
  LET r == RefreshPanel(commit_offset, partition_offsets, current_topic, outcome, order)
  IN /\ IF r.crash
        THEN Panic
        ELSE /\ partition_offsets' = r.pos
             /\ commit_offset' = edited
             /\ UNCHANGED <<config, temp_config,
                            current_config, panel_id, list_panel_id, current_topic,
                            current_offset_type, current_messages, kafka_producer,
                            send_value, send_message, poll_rows, pc>>
     /\ attempt' = NoAttempt
     /\ publish' = NoPublish
     /\ op' = NoOp
     /\ UNCHANGED file
     /\ UNCHANGED <<brokerVars, pull>>

\* The partition ComboBox: one of the partitions in partition_offsets.
SelectPartition(outcome, order, k) ==
  /\ OnCommitPanel
  /\ LET r == RefreshPanel(commit_offset, partition_offsets, current_topic, outcome, order)
     IN /\ k \in 1 .. Len(r.pos)
        /\ PanelFrame(outcome, order, [r.co EXCEPT !.partition = r.pos[k].partition])

\* The DragValue of the offset to commit.
EditCommitOffset(outcome, order, v) ==
  /\ OnCommitPanel
  /\ LET r == RefreshPanel(commit_offset, partition_offsets, current_topic, outcome, order)
     IN PanelFrame(outcome, order, [r.co EXCEPT !.commit_offset = v])

\* The text field of the consumer group.
EditCommitGroup(outcome, order, g) ==
  /\ OnCommitPanel
  /\ LET r == RefreshPanel(commit_offset, partition_offsets, current_topic, outcome, order)
     IN PanelFrame(outcome, order, [r.co EXCEPT !.commit_group = g])

\* A click on the confirm button of the commit-offset panel: the frame's
\* refresh, the validation and the commit loop.
ConfirmCommit(outcome, order) ==
  /\ OnCommitPanel
  /\ LET r == RefreshPanel(commit_offset, partition_offsets, current_topic, outcome, order)
     IN IF r.crash
        THEN /\ Panic
             /\ attempt' = NoAttempt
             /\ publish' = NoPublish
             /\ op' = NoOp
             /\ UNCHANGED file
             /\ UNCHANGED committed
        ELSE \E oks \in [1 .. Len(r.pos) -> BOOLEAN] :
               LET verdict == Validate(r.co)
                   todo == ToCommit(verdict, r.pos)
                   res == ApplyCommits(committed, r.co.error_message, <<>>, todo, oks,
                                       r.co, current_topic)
               IN /\ partition_offsets' = r.pos
                  /\ commit_offset' =
                       [r.co EXCEPT !.error_message =
                          IF verdict = "below" THEN ERR_BELOW
                          ELSE IF verdict = "above" THEN ERR_ABOVE
                          ELSE res.err]
                  /\ committed' = res.c
                  /\ attempt' = [made |-> TRUE, fresh |-> outcome = "ok",
                                 topic |-> current_topic,
                                 partition |-> r.co.partition,
                                 target |-> r.co.commit_offset,
                                 group |-> r.co.commit_group,
                                 verdict |-> verdict,
                                 calls |-> res.calls,
                                 before |-> committed, after |-> res.c]
                  /\ publish' = NoPublish
                  /\ op' = NoOp
                  /\ UNCHANGED file
                  /\ UNCHANGED <<config, temp_config, current_config, panel_id, list_panel_id,
                                 current_topic, current_offset_type, current_messages,
                                 kafka_producer, send_value, send_message, poll_rows, pc>>
  /\ UNCHANGED <<low, high, pull>>

\* --------------------------------------------------------------- start state
\* Watermarks of a running cluster: 0 <= low <= high on every partition.
Watermarks == [TPs -> 0 .. MaxHigh]

\* The state after ToolApp::new with one stored profile whose topics, the
\* topics of its cluster, are loaded.
AppInit(topics) ==
  /\ config = <<[id |-> "c1", host |-> "h1", topics |-> topics, message |-> ""]>>
  /\ current_config = DefaultKafkaConfig
  /\ temp_config = DefaultKafkaConfig
  /\ panel_id = "new"
  /\ list_panel_id = ""
  /\ current_topic = ""
  /\ current_offset_type = "earliest"
  /\ current_messages = <<>>
  /\ partition_offsets = <<>>
  /\ kafka_producer = ""
  /\ send_value = ""
  /\ send_message = ""
  /\ poll_rows = 0
  /\ commit_offset = DefaultCommitOffset
  /\ pc = "idle"
  /\ attempt = NoAttempt
  /\ publish = NoPublish
  /\ file = Stored(config)
  /\ op = NoOp
  /\ pull = NoPull

\* A cluster that has the topics of the set topics (the partitions of the
\* others stay at 0); no group has committed anything yet.
BrokerInit(topics) ==
  /\ low \in Watermarks
  /\ high \in Watermarks
  /\ \A tp \in TPs : low[tp] <= high[tp] /\ (tp[1] \notin topics => high[tp] = 0)
  /\ committed = [g \in Groups |-> [tp \in TPs |-> 0 - 1]]

InitCommit == AppInit({"t1"}) /\ BrokerInit({"t1"})

\* --------------------------------------- specification of the commit panel
NextCommit ==
  \/ \E i \in 1 .. Len(config), topic \in Topics : TopicClick(i, topic)
  \/ TabClick("commit_offset")
  \/ \E o \in RefreshOutcomes, order \in Perms(current_topic), k \in 1 .. 2 :
       SelectPartition(o, order, k)
  \/ \E o \in RefreshOutcomes, order \in Perms(current_topic), v \in CommitTargets :
       EditCommitOffset(o, order, v)
  \/ \E o \in RefreshOutcomes, order \in Perms(current_topic), g \in UserGroups :
       EditCommitGroup(o, order, g)
  \/ \E o \in RefreshOutcomes, order \in Perms(current_topic) : ConfirmCommit(o, order)

SpecCommit == InitCommit /\ [][NextCommit]_vars

\* ---------------------------------------------------------------- data panel
OnDataPanel ==
  pc = "idle" /\ panel_id = "list" /\ list_panel_id \notin {"", "commit_offset", "send_data"}

\* Values of the pull-count DragValue (a usize): small counts, the first
\* count above the largest i64, and the largest usize.
RowChoices == (0 .. MaxRows) \cup {I64Max + 1, UsizeMax}

\* The start-position ComboBox.
SetOffsetType(t) ==
  /\ OnDataPanel
  /\ t \in {"earliest", "latest"}
  /\ current_offset_type' = t
  /\ attempt' = NoAttempt
  /\ publish' = NoPublish
  /\ op' = NoOp
  /\ UNCHANGED file
  /\ pull' = NoPull
  /\ UNCHANGED <<brokerVars, config, temp_config,
                 current_config, panel_id, list_panel_id, current_topic,
                 current_messages, partition_offsets, kafka_producer, send_value,
                 send_message, poll_rows, commit_offset, pc>>

\* The pull-count DragValue.
SetPollRows(n) ==
  /\ OnDataPanel
  /\ n \in 0 .. UsizeMax
  /\ poll_rows' = n
  /\ attempt' = NoAttempt
  /\ publish' = NoPublish
  /\ op' = NoOp
  /\ UNCHANGED file
  /\ pull' = NoPull
  /\ UNCHANGED <<brokerVars, config, temp_config,
                 current_config, panel_id, list_panel_id, current_topic,
                 current_offset_type, current_messages, partition_offsets, kafka_producer,
                 send_value, send_message,
                 commit_offset, pc>>

\* `u as i64` for a usize u: the same bits read as a signed integer.
AsI64(u) == IF u > I64Max THEN u - 2 ^ WordBits ELSE u

\* The value an i64 computation leaves when it wraps.
WrapI64(x) == ((x - I64Min) % (2 ^ WordBits)) + I64Min

Overflows(x) == x > I64Max \/ x < I64Min

SubCountUndivided(rows, n) == AsI64(rows)

\* sub_count: the pull count divided by the number of partitions, cast to i64.
SubCount(rows, n) == AsI64(IF n > 0 THEN rows \div n ELSE rows)

\* The offset the latest branch commits for a partition whose latest offset
\* is off (when the subtraction overflows, this is the wrapped result).
LatestStart(off, sub) ==
  LET offset == WrapI64(off - sub)
  IN IF offset < 0 THEN 0 ELSE offset

StartOffsetSkewed(type, lo, hi, sub) ==
  IF type = "earliest" THEN lo + 1 ELSE LatestStart(hi, sub)

\* The offset the pull commits to the tool group for a partition with
\* watermarks lo and hi.
StartOffset(type, lo, hi, sub) == IF type = "earliest" THEN lo ELSE LatestStart(hi, sub)

\* Where the start of a pull can fail: load_metadata, fetch_offsets, the k-th
\* commit_offset, or the creation of the consumer; every one is unwrapped.
PullFailures(n) ==
  {[at |-> a, k |-> 0] : a \in {"meta", "fetch", "consumer", "none"}}
    \cup {[at |-> "commit", k |-> k] : k \in 1 .. n}

\* Builds with overflow checks panic on `po.offset - sub_count` when it
\* overflows; the others wrap.
Builds == {"checked", "wrapping"}

\* The position the consumer starts to fetch a partition from: the offset
\* its group has committed, or the fallback offset when it has none.
FetchStart(c, type, tp) ==
  IF c[KAFKA_GROUP_ID][tp] # 0 - 1 THEN c[KAFKA_GROUP_ID][tp]
  ELSE IF type = "earliest" THEN low[tp] ELSE high[tp]

\* A click on the pull button, up to the first test of the loop.
PullClick(order, fail, build) ==
  /\ OnDataPanel
  /\ LET topic == current_topic
         n == Len(order)
         sub == SubCount(poll_rows, n)
         seed(q) == StartOffset(current_offset_type, low[<<topic, q>>], high[<<topic, q>>], sub)
         \* the first partition of the loop whose subtraction panics
         arith == IF current_offset_type # "earliest" /\ build = "checked"
                  THEN {k \in 1 .. n : Overflows(high[<<topic, order[k]>>] - sub)}
                  ELSE {}
         stops == arith \cup (IF fail.at = "commit" THEN {fail.k} ELSE {})
         firstStop == CHOOSE k \in stops : \A j \in stops : k <= j
         nok == IF fail.at \in {"meta", "fetch"} THEN 0
                ELSE IF stops # {} THEN firstStop - 1 ELSE n
         seeded == [q \in Partitions(topic) |->
                      IF \E k \in 1 .. nok : order[k] = q THEN seed(q) ELSE 0 - 1]
         c == [committed EXCEPT ![KAFKA_GROUP_ID] =
                 [tp \in TPs |->
                    IF tp[1] = topic /\ seeded[tp[2]] # 0 - 1 THEN seeded[tp[2]] ELSE @[tp]]]
         panics == fail.at \in {"meta", "fetch", "consumer"} \/ stops # {}
         \* the click repeats the pull before it: same topic, same start
         \* position, same watermarks
         again == /\ pull.active /\ pull.status = "done" /\ pull.topic = topic
                  /\ pull.type = current_offset_type
                  /\ \A q \in Partitions(topic) :
                       /\ pull.low0[q] = low[<<topic, q>>]
                       /\ pull.high0[q] = high[<<topic, q>>]
         none == [q \in Partitions(topic) |-> 0 - 1]
         \* the call that failed, in the order the handler makes them
         failed == IF fail.at \in {"meta", "fetch"} THEN fail.at
                   ELSE IF stops # {} THEN (IF firstStop \in arith THEN "arith" ELSE "commit")
                   ELSE fail.at
         h == [active |-> TRUE, status |-> "start", topic |-> topic,
               profile |-> current_config.id, failed |-> failed,
               type |-> current_offset_type,
               rows |-> poll_rows, seeded |-> seeded,
               low0 |-> [q \in Partitions(topic) |-> low[<<topic, q>>]],
               high0 |-> [q \in Partitions(topic) |-> high[<<topic, q>>]],
               again |-> again,
               prevSeeded |-> IF again THEN pull.seeded ELSE none,
               moved |-> \E q \in Partitions(topic) :
                           committed[KAFKA_GROUP_ID][<<topic, q>>] # seeded[q],
               messages |-> <<>>, polled |-> <<>>,
               fetch_pos |-> [q \in Partitions(topic) |->
                                FetchStart(c, current_offset_type, <<topic, q>>)],
               consumed |-> none,
               polls |-> 0, lastEmpty |-> FALSE, checkpoints |-> 0]
     IN /\ committed' = c
        /\ IF panics
           THEN /\ Panic
                /\ pull' = [h EXCEPT !.status = "panicked"]
           ELSE /\ partition_offsets' = <<>>
                /\ IF 0 >= poll_rows
                   THEN /\ current_messages' = <<>>
                        /\ pull' = [h EXCEPT !.status = "done"]
                        /\ pc' = "idle"
                   ELSE /\ current_messages' = current_messages
                        /\ pull' = [h EXCEPT !.status = "polling"]
                        /\ pc' = "polling"
                /\ UNCHANGED <<config, temp_config, current_config, panel_id, list_panel_id,
                               current_topic, current_offset_type, kafka_producer,
                               send_value, send_message, poll_rows, commit_offset>>
  /\ attempt' = NoAttempt
  /\ publish' = NoPublish
  /\ op' = NoOp
  /\ UNCHANGED file
  /\ UNCHANGED <<low, high>>

Min(a, b) == IF a < b THEN a ELSE b

\* The message sets of one poll: for every partition that has records at the
\* consumer's fetch position, in the order order, the next records of it
\* (at least one, at most sizes[q]).
MessageSets(topic, fetch_pos, order, sizes) ==
  LET has(k) == high[<<topic, order[k]>>] > fetch_pos[order[k]]
      idx == {k \in 1 .. Len(order) : has(k)}
      nth(i) == CHOOSE k \in idx : Cardinality({j \in idx : j < k}) = i - 1
  IN [i \in 1 .. Cardinality(idx) |->
        LET q == order[nth(i)]
        IN [partition |-> q, first |-> fetch_pos[q],
            n |-> Min(sizes[q], high[<<topic, q>>] - fetch_pos[q])]]

\* A fetch from a position outside low..high is answered with an error.
OutOfRange(topic, fetch_pos) ==
  \E q \in Partitions(topic) :
    fetch_pos[q] < low[<<topic, q>>] \/ fetch_pos[q] > high[<<topic, q>>]

RECURSIVE Records(_, _, _)
\* The records of the message sets of a poll from set i on, in the order in
\* which ms.iter() and ms.messages() deliver them.
Records(topic, sets, i) ==
  IF i > Len(sets)
  THEN <<>>
  ELSE [j \in 1 .. sets[i].n |->
          [offset |-> sets[i].first + j - 1, partition |-> sets[i].partition, topic |-> topic]]
       \o Records(topic, sets, i + 1)

MessageOffsetShifted(topic, q, offset) == [offset |-> offset + 1, partition |-> q, topic |-> topic]

\* A KafkaMessage; topic and partition stand for the key and the value, which
\* main.rs copies from the record.
Message(topic, q, offset) == [offset |-> offset, partition |-> q, topic |-> topic]

PushedWhole(ms, room) == ms.n

PushedPastTarget(ms, room) == Min(ms.n, room + 1)

\* The number of messages of a set the inner loop pushes when room more
\* messages reach the pull count: it pushes, then tests, then breaks.
Pushed(ms, room) == IF room <= 1 THEN 1 ELSE Min(ms.n, room)

RECURSIVE ConsumeSets(_, _, _, _, _, _)
\* The loop over the message sets of a poll, from set i on: push, mark the
\* whole set consumed, and stop at the set that reaches the pull count.
ConsumeSets(topic, msgs, consumed, sets, i, rows) ==
  IF i > Len(sets)
  THEN [messages |-> msgs, consumed |-> consumed, reached |-> FALSE]
  ELSE LET ms == sets[i]
           k == Pushed(ms, rows - Len(msgs))
           msgs2 == msgs \o [j \in 1 .. k |-> Message(topic, ms.partition, ms.first + j - 1)]
           consumed2 == [consumed EXCEPT ![ms.partition] = ms.first + ms.n - 1]
       IN IF Len(msgs2) >= rows
          THEN [messages |-> msgs2, consumed |-> consumed2, reached |-> TRUE]
          ELSE ConsumeSets(topic, msgs2, consumed2, sets, i + 1, rows)

LoopEndsOnCountOnly(empty, len, rows) == len >= rows

LoopEndsOnEmptyOnly(empty, len, rows) == empty

\* The two exits of the pull loop: the poll returned nothing, or the pull
\* count is reached.
LoopEnds(empty, len, rows) == empty \/ len >= rows

CheckpointedOnEveryPoll(empty, reached) == ~empty

CheckpointedAtEveryEnd(empty, reached) == empty \/ reached

\* commit_consumed is called in a turn of the loop when the poll returned
\* records and one of its sets reached the pull count.
Checkpointed(empty, reached) == ~empty /\ reached

\* What the broker answers in one turn of the pull loop: everything works,
\* the poll fails, or commit_consumed fails.
PollResults == {"ok", "poll_err", "commit_err"}

\* One turn of the pull loop: consumer.poll(), the loop over its message
\* sets, commit_consumed when the pull count is reached, and the loop test;
\* when the loop ends, the messages are stored for display.
PollStep(res, order, sizes) ==
  /\ pc = "polling"
  /\ LET topic == pull.topic
         ok == res # "poll_err"
         cok == res # "commit_err"
         err == ~ok \/ OutOfRange(topic, pull.fetch_pos)
         sets == MessageSets(topic, pull.fetch_pos, order, sizes)
         empty == Len(sets) = 0
         r == ConsumeSets(topic, pull.messages, pull.consumed, sets, 1, pull.rows)
         polled == [pull EXCEPT !.polls = @ + 1]
         next_pos == [q \in Partitions(topic) |->
                        IF \E i \in 1 .. Len(sets) : sets[i].partition = q
                        THEN LET i == CHOOSE i \in 1 .. Len(sets) : sets[i].partition = q
                             IN sets[i].first + sets[i].n
                        ELSE pull.fetch_pos[q]]
         c == [committed EXCEPT ![KAFKA_GROUP_ID] =
                 [tp \in TPs |->
                    IF tp[1] = topic /\ r.consumed[tp[2]] # 0 - 1
                    THEN r.consumed[tp[2]] + 1 ELSE @[tp]]]
     IN IF err \/ (Checkpointed(empty, r.reached) /\ ~cok)
        THEN /\ Panic
             /\ pull' = [polled EXCEPT !.status = "panicked",
                                       !.failed = IF err THEN "poll" ELSE "checkpoint"]
             /\ UNCHANGED committed
        ELSE /\ LET msgs == IF empty THEN pull.messages ELSE r.messages
                    ends == LoopEnds(empty, Len(msgs), pull.rows)
                IN /\ pull' = [polled EXCEPT
                                 !.messages = msgs,
                                 !.polled = @ \o Records(topic, sets, 1),
                                 !.lastEmpty = empty,
                                 !.fetch_pos = next_pos,
                                 !.consumed = IF empty THEN @ ELSE
                                              IF r.reached
                                              THEN [q \in Partitions(topic) |-> 0 - 1]
                                              ELSE r.consumed,
                                 !.checkpoints = IF Checkpointed(empty, r.reached)
                                                 THEN @ + 1 ELSE @,
                                 !.status = IF ends THEN "done" ELSE "polling"]
                   /\ pc' = IF ends THEN "idle" ELSE "polling"
                   /\ current_messages' = IF ends THEN msgs ELSE current_messages
             /\ committed' = IF Checkpointed(empty, r.reached) THEN c ELSE committed
             /\ UNCHANGED <<config, temp_config,
                            current_config, panel_id, list_panel_id, current_topic,
                            current_offset_type, partition_offsets, kafka_producer,
                 send_value, send_message,
                            poll_rows, commit_offset>>
  /\ attempt' = NoAttempt
  /\ publish' = NoPublish
  /\ op' = NoOp
  /\ UNCHANGED file
  /\ UNCHANGED <<low, high>>

\* Another client of the cluster appends a record to a partition of the
\* topic a pull is polling.
BrokerAppend(tp) ==
  /\ tp \in TPs
  /\ pc = "polling"
  /\ tp[1] = pull.topic
  /\ high[tp] < MaxHigh
  /\ high' = [high EXCEPT ![tp] = @ + 1]
  /\ UNCHANGED <<low, committed, config, temp_config, current_config, panel_id, list_panel_id,
                 current_topic, current_offset_type, current_messages, partition_offsets,
                 kafka_producer, send_value, send_message, poll_rows, commit_offset, pc,
                 attempt, publish, file, op, pull>>

\* ------------------------------------------------- specification of the pull
\* A cluster that has one of the two topics.
InitPull == \E topic \in Topics : AppInit({topic}) /\ BrokerInit({topic})

NextPull ==
  \/ \E i \in 1 .. Len(config), topic \in Topics : TopicClick(i, topic)
  \/ \E t \in {"earliest", "latest"} : SetOffsetType(t)
  \/ \E n \in RowChoices : SetPollRows(n)
  \/ \E order \in Perms(current_topic), build \in Builds :
       \E fail \in PullFailures(Len(order)) : PullClick(order, fail, build)
  \/ \E res \in PollResults, order \in Perms(pull.topic) :
       \E sizes \in [Partitions(pull.topic) -> 1 .. MaxBatch] : PollStep(res, order, sizes)

SpecPull == InitPull /\ [][NextPull]_vars

\* ------------------------------- the pull while other clients keep producing
\* The data panel of the one topic of a cluster that is still empty, after
\* the user has chosen the start position and the pull count.
InitLive ==
  \E topic \in Topics :
    /\ BrokerInit({topic})
    /\ \A tp \in TPs : high[tp] = 0
    /\ config = <<[id |-> "c1", host |-> "h1", topics |-> {topic}, message |-> ""]>>
    /\ temp_config = DefaultKafkaConfig
    /\ current_config = config[1]
    /\ panel_id = "list"
    /\ list_panel_id = "data"
    /\ current_topic = topic
    /\ current_offset_type \in {"earliest", "latest"}
    /\ current_messages = <<>>
    /\ partition_offsets = <<>>
    /\ kafka_producer = ""
    /\ send_value = ""
    /\ send_message = ""
    /\ poll_rows \in RowChoices
    /\ commit_offset = DefaultCommitOffset
    /\ pc = "idle"
    /\ attempt = NoAttempt
    /\ publish = NoPublish
    /\ file = Stored(config)
    /\ op = NoOp
    /\ pull = NoPull

\* The behaviours of SpecLive follow one pull from the click to its end.
NextLive ==
  \/ \E order \in Perms(current_topic), build \in Builds :
       \E fail \in PullFailures(Len(order)) : ~pull.active /\ PullClick(order, fail, build)
  \/ \E res \in PollResults, order \in Perms(pull.topic) :
       \E sizes \in [Partitions(pull.topic) -> 1 .. MaxBatch] : PollStep(res, order, sizes)
  \/ \E tp \in TPs : BrokerAppend(tp)

\* The pull loop runs inside one call of update: once the button is clicked
\* nothing but the end of the loop or a panic stops it from taking its next turn.
TakesTurn ==
  \E res \in PollResults, order \in Perms(pull.topic) :
    \E sizes \in [Partitions(pull.topic) -> 1 .. MaxBatch] : PollStep(res, order, sizes)

SpecLive == InitLive /\ [][NextLive]_vars /\ WF_vars(TakesTurn)

\* ------------------------------------------------ claims on the commit panel
\* The attempt was validated against values the panel fetched in the same
\* frame, for a partition the topic has.
AttemptOnPartition ==
  /\ attempt.made
  /\ attempt.fresh
  /\ attempt.partition \in Partitions(attempt.topic)

AttemptTP == <<attempt.topic, attempt.partition>>

\* C1: a manual commit with target t on a partition with watermarks low and
\* high is rejected if and only if t < low or t > high, and an accepted one
\* leads to a commit_offset call for that partition.
C1_RejectedIffOutOfRange ==
  AttemptOnPartition =>
    /\ (attempt.verdict # "accepted") <=>
         (attempt.target < low[AttemptTP] \/ attempt.target > high[AttemptTP])
    /\ attempt.verdict = "accepted" =>
         \E k \in 1 .. Len(attempt.calls) : attempt.calls[k].partition = attempt.partition

\* C2: a manual commit that is rejected as out of range makes no
\* commit_offset call and leaves every committed offset at the broker as it was.
C2_RejectedSendsNothing ==
  (attempt.made /\ attempt.verdict \in {"below", "above"}) =>
    /\ attempt.calls = <<>>
    /\ attempt.after = attempt.before
    /\ committed = attempt.before

\* A target below the low watermark of the selected partition was rejected as below.
C2_Witness ==
  /\ AttemptOnPartition
  /\ attempt.target < low[AttemptTP]
  /\ low[AttemptTP] < high[AttemptTP]
  /\ attempt.verdict = "below"
  /\ attempt.group \in Groups

\* C3: an accepted manual commit for partition p changes the committed offset
\* of p only; the group's offset of every other partition of the topic stays.
C3_OnlySelectedPartition ==
  (AttemptOnPartition /\ attempt.verdict = "accepted") =>
    \A g \in Groups : \A q \in Partitions(attempt.topic) \ {attempt.partition} :
      attempt.after[g][<<attempt.topic, q>>] = attempt.before[g][<<attempt.topic, q>>]

\* ------------------------------------------------------- claims on the pull
Max(a, b) == IF a > b THEN a ELSE b

PullPartitions == Partitions(pull.topic)

\* The pull has committed a start offset for every partition of its topic.
Seeded == pull.active /\ \A q \in PullPartitions : pull.seeded[q] # 0 - 1

\* perPartitionBack of the specification: floor(n / partitionCount), or n
\* when there is no partition.
PerPartitionBack(n, count) == IF count > 0 THEN n \div count ELSE n

\* C4: the start offset a LatestMinusN(n) pull commits for a partition is
\* max(0, high - back), back = floor(n / partitionCount).
C4_LatestMinusN ==
  (pull.active /\ pull.type = "latest") =>
    \A q \in PullPartitions :
      pull.seeded[q] # 0 - 1 =>
        pull.seeded[q] =
          Max(0, pull.high0[q] - PerPartitionBack(pull.rows, Cardinality(PullPartitions)))

\* C5: for every n of the unsigned pull-count type, above the largest signed
\* value too, the LatestMinusN start offset of a partition lies in 0..high.
C5_StartWithinZeroAndHigh ==
  (pull.active /\ pull.type = "latest") =>
    \A q \in PullPartitions :
      pull.seeded[q] # 0 - 1 => (0 <= pull.seeded[q] /\ pull.seeded[q] <= pull.high0[q])

\* C6: an Earliest pull commits to the tool group, for every partition, that
\* partition's low watermark, and a repeated pull with unchanged watermarks
\* commits the same offsets again.
C6_EarliestSeedsLow ==
  (pull.active /\ pull.type = "earliest") =>
    /\ \A q \in PullPartitions : pull.seeded[q] # 0 - 1 => pull.seeded[q] = pull.low0[q]
    /\ (pull.status = "polling" /\ pull.polls = 0) =>
         \A q \in PullPartitions : committed[KAFKA_GROUP_ID][<<pull.topic, q>>] = pull.low0[q]
    /\ (Seeded /\ pull.again) => pull.seeded = pull.prevSeeded

\* A repeated Earliest pull has committed the low watermarks again, after the
\* checkpoint of the pull before it had moved the group's offsets.
C6_Witness ==
  /\ Seeded
  /\ pull.type = "earliest"
  /\ pull.again
  /\ pull.moved
  /\ pull.status = "polling"
  /\ pull.seeded = pull.prevSeeded

\* C7: on a one-partition topic with at least k records, an Earliest pull of
\* k > 0 records commits the low watermark and ends with exactly the k
\* records at offsets low .. low+k-1, whatever the sizes of the batches.
C7_EarliestPullExact ==
  (/\ pull.active /\ pull.status = "done" /\ pull.type = "earliest"
   /\ PullPartitions = {0}
   /\ pull.rows > 0
   /\ pull.high0[0] - pull.low0[0] >= pull.rows) =>
    /\ pull.seeded[0] = pull.low0[0]
    /\ Len(pull.messages) = pull.rows
    /\ \A i \in 1 .. Len(pull.messages) : pull.messages[i].offset = pull.low0[0] + i - 1
    /\ current_messages = pull.messages

\* Two records were pulled from a partition of more, in two polls.
C7_Witness ==
  /\ pull.active /\ pull.status = "done" /\ pull.type = "earliest"
  /\ PullPartitions = {0}
  /\ pull.rows = 2
  /\ pull.high0[0] - pull.low0[0] >= 2
  /\ pull.polls = 2
  /\ Len(current_messages) = 2

\* The value the latest branch divides by the partition count (line 493).
Lookback == poll_rows

\* The value the pull loop compares the number of messages with (line 532).
TargetCount == poll_rows

\* C8 as stated: the lookback and the target count are independent inputs, so
\* a step that changes the target count leaves the lookback as it was.
C8_IndependentInputs == [][TargetCount' # TargetCount => Lookback' = Lookback]_vars

\* C8 as amended: the lookback is the target count; on two partitions a
\* latest pull of n records commits max(0, high - floor(n / 2)) for each, and
\* it ends with at most n records, with fewer only after an empty poll that
\* found both partitions exhausted.
C8_LookbackIsTargetCount ==
  (pull.active /\ pull.type = "latest" /\ Cardinality(PullPartitions) = 2) =>
    /\ \A q \in PullPartitions :
         pull.seeded[q] # 0 - 1 => pull.seeded[q] = Max(0, pull.high0[q] - pull.rows \div 2)
    /\ pull.status = "done" =>
         /\ Len(pull.messages) <= pull.rows
         /\ Len(pull.messages) < pull.rows =>
              /\ pull.lastEmpty
              /\ \A q \in PullPartitions : pull.fetch_pos[q] = high[<<pull.topic, q>>]

\* The scenario at scale: highs [2, 2], a pull of 3, back 1, start offsets
\* [1, 1], and the pull ends with the 2 records there are.
C8_Witness ==
  /\ pull.active /\ pull.type = "latest" /\ pull.status = "done"
  /\ Cardinality(PullPartitions) = 2
  /\ pull.rows = 3
  /\ \A q \in PullPartitions : pull.high0[q] = 2 /\ pull.seeded[q] = 1
  /\ Len(pull.messages) = 2
  /\ pull.lastEmpty

\* C9: the loop polls again if and only if fewer messages than the target
\* count are accumulated and the last poll returned something; so a pull that
\* ends with fewer ended on an empty poll, and a pull of 0 never polls.
C9_PollsIffRoomAndData ==
  /\ []((pull.active /\ pull.status \in {"polling", "done"}) =>
          /\ pull.status = "polling" <=>
               (Len(pull.messages) < pull.rows /\ ~pull.lastEmpty)
          /\ pull.rows = 0 => pull.polls = 0
          /\ pc = "polling" <=> pull.status = "polling")
  /\ [][(pull.active /\ pull'.active /\ pull'.polls = pull.polls + 1) =>
          (Len(pull.messages) < pull.rows /\ ~pull.lastEmpty)]_vars
  /\ [][(pull.active /\ pull.status = "polling") =>
          (pull'.active /\ pull'.polls = pull.polls + 1)]_vars

\* A pull ended below its target count, on an empty poll, after polls that
\* returned records.
C9_Witness ==
  /\ pull.active /\ pull.status = "done"
  /\ Len(pull.messages) > 0
  /\ Len(pull.messages) < pull.rows
  /\ pull.lastEmpty
  /\ pull.polls >= 3

\* The polls of the pull that returned records.
NonEmptyPolls == pull.polls - (IF pull.lastEmpty THEN 1 ELSE 0)

\* C10: every pull ends: an empty poll ends the loop at that poll, at most
\* targetCount polls return records, and the loop never polls forever.
C10_PullTerminates ==
  /\ []((pull.active /\ pull.status # "panicked") =>
          /\ NonEmptyPolls <= pull.rows
          /\ pull.lastEmpty => pull.status = "done")
  /\ ((pull.active /\ pull.status = "polling") ~>
        (pull.active /\ pull.status \in {"done", "panicked"}))

\* A pull ended at its target count after as many polls, with records left.
C10_Witness ==
  /\ pull.active /\ pull.status = "done"
  /\ pull.rows = 2
  /\ pull.polls = 2
  /\ ~pull.lastEmpty
  /\ \E q \in PullPartitions : pull.fetch_pos[q] < high[<<pull.topic, q>>]

\* ------------------------------------------------- claims on the accumulation
RECURSIVE IsSubSeq(_, _)
\* s is a sub-sequence of t: t with some elements left out, the order kept.
IsSubSeq(s, t) ==
  IF Len(s) = 0 THEN TRUE
  ELSE IF Len(t) = 0 THEN FALSE
  ELSE IF Head(s) = Head(t) THEN IsSubSeq(Tail(s), Tail(t))
  ELSE IsSubSeq(s, Tail(t))

NoDuplicates(s) == \A i, j \in 1 .. Len(s) : i # j => s[i] # s[j]

\* C11: at every point of a pull the accumulated messages are an
\* order-preserving sub-sequence of the records the polls have returned so
\* far, in the order they were returned, with no record twice.
C11_AccumulatedIsSubSequence ==
  (pull.active /\ pull.status \in {"polling", "done"}) =>
    /\ IsSubSeq(pull.messages, pull.polled)
    /\ NoDuplicates(pull.messages)
    /\ pull.status = "done" => current_messages = pull.messages

\* Two polls on a two-partition topic returned four records, of which the
\* pull kept the first three and left out the last.
C11_Witness ==
  /\ pull.active /\ pull.status = "done"
  /\ Cardinality(PullPartitions) = 2
  /\ pull.polls = 2
  /\ Len(pull.polled) = 4
  /\ Len(pull.messages) = 3
  /\ pull.messages[1].partition # pull.messages[2].partition

\* ------------------------------------- two profiles and the topics they share
\* Two stored profiles: the first lists both topics, the second lists t2 too.
TwoProfiles ==
  <<[id |-> "c1", host |-> "h1", topics |-> {"t1", "t2"}, message |-> ""],
    [id |-> "c2", host |-> "h2", topics |-> {"t2"}, message |-> ""]>>

\* The state after ToolApp::new with the two profiles loaded; t1 is still
\* empty and nothing has been deleted from t2 yet.
InitSwitch ==
  /\ BrokerInit({"t2"})
  /\ \A tp \in TPs : low[tp] = 0
  /\ config = TwoProfiles
  /\ current_config = DefaultKafkaConfig
  /\ temp_config = DefaultKafkaConfig
  /\ panel_id = "new"
  /\ list_panel_id = ""
  /\ current_topic = ""
  /\ current_offset_type = "earliest"
  /\ current_messages = <<>>
  /\ partition_offsets = <<>>
  /\ kafka_producer = ""
  /\ send_value = ""
  /\ send_message = ""
  /\ poll_rows = 0
  /\ commit_offset = DefaultCommitOffset
  /\ pc = "idle"
  /\ attempt = NoAttempt
  /\ publish = NoPublish
  /\ file = Stored(config)
  /\ op = NoOp
  /\ pull = NoPull

NextSwitch ==
  \/ \E i \in 1 .. Len(config), topic \in Topics : TopicClick(i, topic)
  \/ \E n \in 1 .. MaxRows : SetPollRows(n)
  \/ \E order \in Perms(current_topic), build \in Builds :
       \E fail \in PullFailures(Len(order)) : PullClick(order, fail, build)
  \/ \E res \in PollResults, order \in Perms(pull.topic) :
       \E sizes \in [Partitions(pull.topic) -> 1 .. MaxBatch] : PollStep(res, order, sizes)

SpecSwitch == InitSwitch /\ [][NextSwitch]_vars

\* C12: a switch of the topic or of the profile empties the message list, so
\* every displayed message was fetched for the selected profile and topic, and
\* the consumer that is polled is the one of the selected profile and topic.
C12_NoLeakAcrossSwitch ==
  /\ []((pc # "crashed") =>
          /\ \A i \in 1 .. Len(current_messages) : current_messages[i].topic = current_topic
          /\ (pull.active /\ current_messages # <<>>) =>
               (pull.topic = current_topic /\ pull.profile = current_config.id)
          /\ pc = "polling" =>
               (pull.topic = current_topic /\ pull.profile = current_config.id))
  /\ [][(pc' # "crashed" /\ (current_topic' # current_topic
                               \/ current_config'.id # current_config.id)) =>
          current_messages' = <<>>]_vars

\* After a pull of t2 on the first profile had filled the list, the user
\* clicked t2 of the second profile and the list is empty.
C12_Witness ==
  /\ pull.active /\ pull.status = "done"
  /\ Len(pull.messages) > 0
  /\ pull.profile = "c1" /\ current_config.id = "c2"
  /\ pull.topic = current_topic
  /\ current_messages = <<>>

\* ---------------------------------------------------- claims on the failures
\* C13: when commit_offset fails for a partition while the pull seeds its
\* start offsets, the pull fails with the error surfaced and the tool stays
\* usable, no poll is made, and the offsets committed for the partitions
\* before it stay committed.
C13_SeedFailureIsSurfaced ==
  (pull.active /\ pull.failed = "commit") =>
    /\ pc = "idle"
    /\ panel_id = "list"
    /\ current_topic = pull.topic
    /\ pull.polls = 0
    /\ \A q \in PullPartitions :
         pull.seeded[q] # 0 - 1 => committed[KAFKA_GROUP_ID][<<pull.topic, q>>] = pull.seeded[q]

\* C14: no failure of a call to the broker ends the process: after a failed
\* metadata load, watermark fetch, commit, consumer creation or poll the
\* application is still running.
C14_NoFailureEndsTheProcess == pc # "crashed"

\* ------------------------------------------------- claims on the checkpoint
\* The pull ended because its messages reached the pull count.
EndedOnCount ==
  pull.active /\ pull.status = "done" /\ pull.rows > 0 /\ Len(pull.messages) >= pull.rows

\* C15: a pull that ends because the count reached the target has committed
\* the consumed position to the tool group exactly once: in the turn of the
\* loop that reached the target, after that batch was consumed, and before
\* the pull is done and its messages are displayed.
C15_CheckpointOnceAtTarget ==
  /\ []((pull.active /\ pull.status = "polling") => pull.checkpoints = 0)
  /\ [](EndedOnCount =>
          /\ pull.checkpoints = 1
          /\ current_messages = pull.messages)
  /\ [][(/\ pull.active /\ pull'.active /\ pull'.polls = pull.polls + 1
         /\ pull'.checkpoints # pull.checkpoints) =>
          /\ pull.status = "polling" /\ pull'.status = "done"
          /\ pull'.checkpoints = pull.checkpoints + 1
          /\ Len(pull.messages) < pull.rows /\ Len(pull'.messages) >= pull.rows
          /\ committed'[KAFKA_GROUP_ID][<<pull.topic, Last(pull'.messages).partition>>]
               > Last(pull'.messages).offset]_vars

\* A pull of three ended on its count in its second poll, with one checkpoint.
C15_Witness ==
  /\ EndedOnCount
  /\ pull.rows = 3
  /\ pull.polls = 2
  /\ pull.checkpoints = 1
  /\ committed[KAFKA_GROUP_ID][<<pull.topic, Last(pull.messages).partition>>]
       = Last(pull.messages).offset + 1

\* The offsets of the messages of the pull that came from partition q.
OffsetsOf(q) == {pull.messages[i].offset : i \in {j \in 1 .. Len(pull.messages) :
                                                   pull.messages[j].partition = q}}

\* C16: when the target is reached in the middle of a batch, the checkpoint
\* committed for a partition is one past the offset of the last record of
\* that partition in the accumulated result.
C16_CheckpointMatchesResult ==
  EndedOnCount =>
    \A q \in PullPartitions :
      OffsetsOf(q) # {} =>
        \A last \in OffsetsOf(q) :
          (\A o \in OffsetsOf(q) : o <= last) =>
            committed[KAFKA_GROUP_ID][<<pull.topic, q>>] = last + 1

\* ------------------------------------------------------------- send panel
OnSendPanel == pc = "idle" /\ panel_id = "list" /\ list_panel_id = "send_data"

\* Texts a user can type into the message editor.
SendTexts == {"", "a", "b"}

ERR_SEND == "send error"

\* The multiline editor of the message to send.
EditSendValue(v) ==
  /\ OnSendPanel
  /\ v \in SendTexts
  /\ send_value' = v
  /\ attempt' = NoAttempt
  /\ publish' = NoPublish
  /\ op' = NoOp
  /\ UNCHANGED file
  /\ UNCHANGED <<brokerVars, config, temp_config,
                 current_config, panel_id, list_panel_id, current_topic,
                 current_offset_type, current_messages, partition_offsets, kafka_producer,
                 send_message, poll_rows, commit_offset, pc, pull>>

CreatesAlways(producer) == TRUE

\* kafka_producer.is_none(): the click has to build a producer.
Creates(producer) == producer = ""

\* The producer the click sends with: a new one for the hosts of
\* current_config, or the one that is held.
ProducerFor(producer, host) == IF Creates(producer) THEN host ELSE producer

SendMessageKeptOnOk(outcome, old) == IF outcome = "ok" THEN old ELSE ERR_SEND

\* send_message after producer.send has returned.
SendMessage(outcome, old) == IF outcome = "ok" THEN "" ELSE ERR_SEND

\* What Producer::create answers.
CreateOutcomes == {"ok", "err"}

\* What producer.send answers: Ok, Err with nothing written, or Err although
\* the record was written (the acknowledgement did not arrive in time).
SendOutcomes == {"ok", "refused", "lost_ack"}

\* A click on the confirm button of the send panel; q is the partition the
\* producer picks for the record.
SendClick(create, outcome, q) ==
  /\ OnSendPanel
  /\ create \in CreateOutcomes
  /\ outcome \in SendOutcomes
  /\ q \in Partitions(current_topic)
  /\ IF Creates(kafka_producer) /\ create = "err"
     THEN /\ Panic
          /\ publish' = [made |-> TRUE, status |-> "panicked", created |-> FALSE,
                         before |-> kafka_producer, used |-> "",
                         host |-> current_config.host, value |-> send_value,
                         message0 |-> send_message, retry |-> FALSE]
          /\ UNCHANGED high
     ELSE LET producer == ProducerFor(kafka_producer, current_config.host)
              written == outcome \in {"ok", "lost_ack"}
          IN /\ written => high[<<current_topic, q>>] < MaxHigh
             /\ kafka_producer' = producer
             /\ high' = IF written
                        THEN [high EXCEPT ![<<current_topic, q>>] = @ + 1]
                        ELSE high
             /\ send_message' = SendMessage(outcome, send_message)
             /\ publish' = [made |-> TRUE,
                            status |-> IF outcome = "ok" THEN "ok" ELSE "err",
                            created |-> Creates(kafka_producer),
                            before |-> kafka_producer, used |-> producer,
                            host |-> current_config.host, value |-> send_value,
                            message0 |-> send_message,
                            retry |-> publish.made /\ publish.status = "err"]
             /\ UNCHANGED <<config, temp_config,
                            current_config, panel_id, list_panel_id, current_topic,
                            current_offset_type, current_messages, partition_offsets,
                            send_value, poll_rows, commit_offset, pc>>
  /\ attempt' = NoAttempt
  /\ op' = NoOp
  /\ UNCHANGED <<low, committed, pull, file>>

\* The state after ToolApp::new with the two profiles loaded and no record
\* in any topic.
InitSend ==
  /\ BrokerInit({})
  /\ \A tp \in TPs : low[tp] = 0
  /\ config = TwoProfiles
  /\ current_config = DefaultKafkaConfig
  /\ temp_config = DefaultKafkaConfig
  /\ panel_id = "new"
  /\ list_panel_id = ""
  /\ current_topic = ""
  /\ current_offset_type = "earliest"
  /\ current_messages = <<>>
  /\ partition_offsets = <<>>
  /\ kafka_producer = ""
  /\ send_value = ""
  /\ send_message = ""
  /\ poll_rows = 0
  /\ commit_offset = DefaultCommitOffset
  /\ pc = "idle"
  /\ attempt = NoAttempt
  /\ publish = NoPublish
  /\ file = Stored(config)
  /\ op = NoOp
  /\ pull = NoPull

NextSend ==
  \/ \E i \in 1 .. Len(config), topic \in Topics : TopicClick(i, topic)
  \/ TabClick("send_data")
  \/ \E v \in SendTexts : EditSendValue(v)
  \/ \E create \in CreateOutcomes, outcome \in SendOutcomes, q \in Partitions(current_topic) :
       SendClick(create, outcome, q)

SpecSend == InitSend /\ [][NextSend]_vars

\* ------------------------------------------------- claims on the send panel
\* The last step was a click on the send button that did not panic.
Published == publish.made /\ publish.status # "panicked"

\* C17: at most one producer is held; a publish builds it when none is held,
\* every later publish of the same profile selection reuses it, a topic
\* click that changes the profile drops it, and so a publish never sends
\* with a producer built for the hosts of another profile.
C17_ProducerOfSelectedProfile ==
  /\ []((pc # "crashed" /\ kafka_producer # "") => kafka_producer = current_config.host)
  /\ [](Published =>
          /\ publish.used = publish.host
          /\ publish.host = current_config.host
          /\ kafka_producer = publish.used
          /\ publish.created <=> publish.before = "")
  /\ [][(pc' # "crashed" /\ current_config'.id # current_config.id) =>
          kafka_producer' = ""]_vars
  /\ [][(publish'.made /\ publish'.status # "panicked" /\ kafka_producer # "") =>
          (~publish'.created /\ kafka_producer' = kafka_producer)]_vars

\* A publish on the second profile built a producer for its hosts, after a
\* producer of the first profile had been dropped by the switch.
C17_Witness ==
  /\ Published
  /\ publish.created
  /\ publish.used = "h2"
  /\ current_config.id = "c2"
  /\ \E tp \in TPs : tp[1] = "t1" /\ high[tp] > 0

\* C18 as stated: after an accepted publish the message editor is empty and
\* no error text is shown.
C18_AcceptedClearsBuffer ==
  (publish.made /\ publish.status = "ok") => (send_value = "" /\ send_message = "")

\* C18 as amended: after an accepted publish no error text is shown, and the
\* message editor still holds the text that was sent.
C18_AcceptedClearsErrorText ==
  (publish.made /\ publish.status = "ok") =>
    (send_message = "" /\ send_value = publish.value)

\* A text was published while the error of a failed publish was shown.
C18_Witness ==
  /\ publish.made /\ publish.status = "ok"
  /\ publish.message0 = ERR_SEND
  /\ publish.value = "a"
  /\ send_value = "a"
  /\ send_message = ""

\* The number of records in the partitions of the cluster.
LogSize(h) == h[<<"t1", 0>>] + h[<<"t1", 1>>] + h[<<"t2", 0>>]

\* C19: after a failed publish the error text is stored, the message text
\* is unchanged, the producer is still held and the next publish sends with
\* it without building another; the failed publish is not sent again.
C19_FailedPublishKeepsAll ==
  /\ []((publish.made /\ publish.status = "err") =>
          /\ send_message = ERR_SEND
          /\ send_value = publish.value
          /\ kafka_producer = publish.used
          /\ kafka_producer # "")
  /\ [][(publish.made /\ publish.status = "err" /\ publish'.made
           /\ publish'.status # "panicked") =>
          (~publish'.created /\ publish'.used = publish.used /\ publish'.retry)]_vars
  /\ [][(publish'.made /\ publish'.status = "err") =>
          LogSize(high') <= LogSize(high) + 1]_vars
  /\ [][(publish.made /\ publish.status = "err" /\ ~publish'.made) =>
          high' = high]_vars

\* The publish after a failed one went through the producer the failed one
\* had built.
C19_Witness ==
  /\ publish.made /\ publish.status = "ok"
  /\ publish.retry
  /\ ~publish.created
  /\ publish.message0 = ERR_SEND
  /\ publish.value = "b"
  /\ LogSize(high) = 1

\* ------------------------------------------- claims on the commit panel, II
\* C20: every manual-commit attempt works on watermarks and a partition list
\* fetched in that same attempt; an attempt whose refresh failed is aborted
\* and makes no commit_offset call with the values an earlier refresh left.
C20_AttemptOnFreshValues ==
  (attempt.made /\ ~attempt.fresh) =>
    /\ attempt.calls = <<>>
    /\ committed = attempt.before

\* ------------------------------------------ claims on the commit panel, III
\* C21: when the broker rejects a manual commit its error text is the error
\* shown, and the failing commit_offset call is the last call of the attempt.
C21_BrokerErrorIsTerminal ==
  attempt.made =>
    \A k \in 1 .. Len(attempt.calls) :
      ~attempt.calls[k].ok =>
        /\ k = Len(attempt.calls)
        /\ commit_offset.error_message = ERR_BROKER

\* C22: a pull leaves the committed offsets of every group but the tool's own
\* alone, and a manual commit leaves the committed offsets of the tool's own
\* group alone.
C22_ToolGroupIsApart ==
  [][/\ (pull'.active /\ pull' # pull) =>
          \A g \in Groups \ {KAFKA_GROUP_ID} : committed'[g] = committed[g]
     /\ attempt'.made => committed'[KAFKA_GROUP_ID] = committed[KAFKA_GROUP_ID]]_vars

\* C30: after an attempt that passed the validation and whose commit_offset
\* calls all succeeded, no error text is shown.
C30_SuccessClearsError ==
  (/\ attempt.made
   /\ attempt.verdict = "accepted"
   /\ attempt.calls # <<>>
   /\ \A k \in 1 .. Len(attempt.calls) : attempt.calls[k].ok) =>
    commit_offset.error_message = ""

\* --------------------------------------------------- claims on the pull, III
\* C25: the start offset a latest pull commits for a partition lies within
\* that partition's watermarks, low <= offset <= high, for every pull count
\* the signed type holds.
C25_StartWithinWatermarks ==
  (pull.active /\ pull.type = "latest" /\ pull.rows <= I64Max) =>
    \A q \in PullPartitions :
      pull.seeded[q] # 0 - 1 =>
        (pull.low0[q] <= pull.seeded[q] /\ pull.seeded[q] <= pull.high0[q])

\* C26: the messages a pull has accumulated are never more than its pull
\* count, and the messages it stores for display are the accumulated ones.
C26_AtMostTargetCount ==
  pull.active =>
    /\ Len(pull.messages) <= pull.rows
    /\ pull.status = "done" =>
         (current_messages = pull.messages /\ Len(current_messages) <= pull.rows)

\* A pull ended on its count in the middle of a message set: the poll had
\* returned a later record of the partition of the last message kept.
C26_Witness ==
  /\ EndedOnCount
  /\ Len(pull.messages) = pull.rows
  /\ current_messages = pull.messages
  /\ \E i \in 1 .. Len(pull.polled) :
       /\ pull.polled[i].partition = Last(pull.messages).partition
       /\ pull.polled[i].offset > Last(pull.messages).offset

\* The pull ended because a poll returned nothing before the pull count was
\* reached.
EndedOnEmpty ==
  /\ pull.active /\ pull.status = "done" /\ pull.lastEmpty
  /\ Len(pull.messages) < pull.rows

\* C27: a pull that ended on an empty poll made no commit_consumed call, and
\* the tool group's committed offset of every partition is the start offset
\* the pull committed at its beginning.
C27_NoCheckpointOnEmptyEnd ==
  EndedOnEmpty =>
    /\ pull.checkpoints = 0
    /\ \A q \in PullPartitions :
         committed[KAFKA_GROUP_ID][<<pull.topic, q>>] = pull.seeded[q]

\* A pull of three ended on an empty poll after it had consumed two records
\* of a partition.
C27_Witness ==
  /\ EndedOnEmpty
  /\ pull.rows = 3
  /\ pull.polls >= 2
  /\ Len(pull.messages) = 2
  /\ \E q \in PullPartitions : pull.consumed[q] > pull.seeded[q]

\* ------------------------------------------- profiles: new-profile page, start
\* The host texts a user types into the form's address field.
HostTexts == {"h1", "h1,h3"}

\* The ids uuid::Uuid::new_v4 hands out.
NewIds == {"u1", "u2"}

\* The topic names the cluster's metadata can list.
ClusterTopics == {{"t1", "t2"}, {"t2"}}

\* The profiles a user stores are at most MaxProfiles.
MaxProfiles == 3

OnNewPage == pc = "idle" /\ panel_id # "list"

Ids(list) == {list[i].id : i \in 1 .. Len(list)}

load_topics_forgetful(cfg, outcome, names) ==
  IF outcome = "ok"
  THEN [cfg EXCEPT !.topics = names, !.message = MSG_OK]
  ELSE [cfg EXCEPT !.topics = {}, !.message = MSG_FAILED]

\* load_topics: load_metadata_all returns Ok (the cluster lists names) or Err.
load_topics(cfg, outcome, names) ==
  IF outcome = "ok"
  THEN [cfg EXCEPT !.topics = names, !.message = MSG_OK]
  ELSE [cfg EXCEPT !.message = MSG_FAILED]

\* The menu entry that opens the new-profile page.
NewClick ==
  /\ pc = "idle"
  /\ panel_id' = "new"
  /\ attempt' = NoAttempt
  /\ publish' = NoPublish
  /\ op' = NoOp
  /\ UNCHANGED <<brokerVars, config, temp_config, current_config, list_panel_id,
                 current_topic, current_offset_type, current_messages, partition_offsets,
                 kafka_producer, send_value, send_message, poll_rows, commit_offset, pc,
                 pull, file>>

\* The address field of the form.
EditHost(h) ==
  /\ OnNewPage
  /\ temp_config' = [temp_config EXCEPT !.host = h]
  /\ attempt' = NoAttempt
  /\ publish' = NoPublish
  /\ op' = NoOp
  /\ UNCHANGED <<brokerVars, config, current_config, panel_id, list_panel_id,
                 current_topic, current_offset_type, current_messages, partition_offsets,
                 kafka_producer, send_value, send_message, poll_rows, commit_offset, pc,
                 pull, file>>

\* The test button of the form: load_topics on temp_config.  No cluster
\* answers at an empty address.
TestClick(outcome, names) ==
  /\ OnNewPage
  /\ outcome = "ok" => temp_config.host # ""
  /\ temp_config' = load_topics(temp_config, outcome, names)
  /\ op' = [kind |-> "discover", on |-> 0, outcome |-> outcome, names |-> names,
            before |-> temp_config, after |-> temp_config']
  /\ attempt' = NoAttempt
  /\ publish' = NoPublish
  /\ UNCHANGED <<brokerVars, config, current_config, panel_id, list_panel_id,
                 current_topic, current_offset_type, current_messages, partition_offsets,
                 kafka_producer, send_value, send_message, poll_rows, commit_offset, pc,
                 pull, file>>

\* A click on the topics label of the i-th stored profile in the left panel:
\* load_topics on the stored record (the file is not written).
TopicsLabelClick(i, outcome, names) ==
  /\ pc = "idle"
  /\ i \in 1 .. Len(config)
  /\ outcome = "ok" => config[i].host # ""
  /\ config' = [config EXCEPT ![i] = load_topics(@, outcome, names)]
  /\ op' = [kind |-> "discover", on |-> i, outcome |-> outcome, names |-> names,
            before |-> config[i], after |-> config'[i]]
  /\ attempt' = NoAttempt
  /\ publish' = NoPublish
  /\ UNCHANGED <<brokerVars, temp_config, current_config, panel_id, list_panel_id,
                 current_topic, current_offset_type, current_messages, partition_offsets,
                 kafka_producer, send_value, send_message, poll_rows, commit_offset, pc,
                 pull, file>>

SavedAppended(list, rec) == Append(list, rec)

\* The list the save button builds: the records with another id, in their
\* order, and the form's record after them.
Saved(list, rec) ==
  SelectSeq(list, LAMBDA item : item.id # rec.id) \o <<rec>>

\* The save button of the form: the id when the form has none (uuid is the
\* one new_v4 returns), the new list, and save_config.  opened = FALSE: the
\* open of the file fails and its unwrap panics.
SaveClick(uuid, opened) ==
  /\ OnNewPage
  /\ IF temp_config.id = "" THEN uuid \notin Ids(config) ELSE uuid = temp_config.id
  /\ LET rec == [temp_config EXCEPT !.id = uuid]
         list == Saved(config, rec)
     IN /\ Cardinality(Ids(config) \cup {uuid}) <= MaxProfiles
        /\ op' = [kind |-> "save", ok |-> opened, id0 |-> temp_config.id,
                  before |-> config, saved |-> rec]
        /\ IF opened
           THEN /\ temp_config' = rec
                /\ config' = list
                /\ file' = WriteAll(file, SerdeToString(list), list)
                /\ UNCHANGED <<current_config, panel_id, list_panel_id, current_topic,
                               current_offset_type, current_messages, partition_offsets,
                               kafka_producer, send_value, send_message, poll_rows,
                               commit_offset, pc>>
           ELSE Panic /\ UNCHANGED file
  /\ attempt' = NoAttempt
  /\ publish' = NoPublish
  /\ UNCHANGED <<brokerVars, pull>>

\* The fields of ToolApp after ToolApp::new, before load_config.
NewApp ==
  /\ temp_config = DefaultKafkaConfig
  /\ current_config = DefaultKafkaConfig
  /\ panel_id = "new"
  /\ list_panel_id = ""
  /\ current_topic = ""
  /\ current_offset_type = "earliest"
  /\ current_messages = <<>>
  /\ partition_offsets = <<>>
  /\ kafka_producer = ""
  /\ send_value = ""
  /\ send_message = ""
  /\ poll_rows = 0
  /\ commit_offset = DefaultCommitOffset
  /\ pc = "idle"

\* load_config: nothing when there is no file; the parsed list; or, when
\* the file does not parse, no list and the file removed.
load_config(f) ==
  LET data == SerdeFromSlice(f.bytes)
  IN IF ~f.exists THEN [config |-> <<>>, file |-> f]
     ELSE IF data.ok THEN [config |-> data.value, file |-> f]
     ELSE [config |-> <<>>, file |-> NoFile]

\* The tool is started (again, after its window was closed or after a
\* panic): ToolApp::new and load_config.  opened = FALSE: the file exists
\* and cannot be read, and the unwrap panics.
Start(opened) ==
  /\ pc \in {"idle", "crashed"}
  /\ opened \/ file.exists
  /\ op' = [kind |-> "start", ok |-> opened, file0 |-> file]
  /\ IF opened
     THEN /\ temp_config' = DefaultKafkaConfig
          /\ current_config' = DefaultKafkaConfig
          /\ panel_id' = "new"
          /\ list_panel_id' = ""
          /\ current_topic' = ""
          /\ current_offset_type' = "earliest"
          /\ current_messages' = <<>>
          /\ partition_offsets' = <<>>
          /\ kafka_producer' = ""
          /\ send_value' = ""
          /\ send_message' = ""
          /\ poll_rows' = 0
          /\ commit_offset' = DefaultCommitOffset
          /\ pc' = "idle"
          /\ config' = load_config(file).config
          /\ file' = load_config(file).file
     ELSE Panic /\ UNCHANGED file
  /\ attempt' = NoAttempt
  /\ publish' = NoPublish
  /\ pull' = NoPull
  /\ UNCHANGED brokerVars

\* A start of the tool from the file of two stored profiles.
InitProfiles ==
  /\ BrokerInit({})
  /\ NewApp
  /\ config = TwoProfiles
  /\ file = Stored(config)
  /\ attempt = NoAttempt
  /\ publish = NoPublish
  /\ pull = NoPull
  /\ op = NoOp

\* The cluster the form's address reaches has the topic t2.
NextProfiles ==
  \/ \E h \in HostTexts : EditHost(h)
  \/ \E outcome \in {"ok", "err"}, names \in {{"t2"}} : TestClick(outcome, names)
  \/ \E uuid \in NewIds, opened \in BOOLEAN : SaveClick(uuid, opened)
  \/ \E opened \in BOOLEAN : Start(opened)

SpecProfiles == InitProfiles /\ [][NextProfiles]_vars

\* ----------------------------- profiles: saving the selected profile again
\* The first start of the tool: no file, no profile.
InitReselect ==
  /\ BrokerInit({})
  /\ NewApp
  /\ config = <<>>
  /\ file = NoFile
  /\ attempt = NoAttempt
  /\ publish = NoPublish
  /\ pull = NoPull
  /\ op = NoOp

NextReselect ==
  \/ NewClick
  \/ \E h \in HostTexts : EditHost(h)
  \/ \E uuid \in NewIds, opened \in BOOLEAN : SaveClick(uuid, opened)
  \/ \E i \in 1 .. Len(config), outcome \in {"ok", "err"}, names \in ClusterTopics :
       TopicsLabelClick(i, outcome, names)
  \/ \E i \in 1 .. Len(config), topic \in Topics : TopicClick(i, topic)

SpecReselect == InitReselect /\ [][NextReselect]_vars

\* ---------------------------------------------------- claims on the profiles
NoDuplicateIds(list) == \A i, j \in 1 .. Len(list) : list[i].id = list[j].id => i = j

Others(list, id) == SelectSeq(list, LAMBDA item : item.id # id)

\* C23: the stored list never holds two records of one id; a save leaves
\* the records of the other ids as they were and in their order, and leaves
\* one record of the saved id, the form's; a form that has an id keeps it.
C23_SaveReplacesById ==
  /\ NoDuplicateIds(config)
  /\ (op.kind = "save" /\ op.ok) =>
       /\ Others(config, op.saved.id) = Others(op.before, op.saved.id)
       /\ \E i \in 1 .. Len(config) : config[i] = op.saved
       /\ Len(config) =
            Len(op.before) + (IF op.saved.id \in Ids(op.before) THEN 0 ELSE 1)
       /\ temp_config = op.saved
       /\ op.saved.id # ""
       /\ op.id0 # "" => op.saved.id = op.id0

\* The form's profile was saved again, with another host text, next to the
\* two profiles that were stored before.
C23_Witness ==
  /\ op.kind = "save" /\ op.ok
  /\ op.id0 = "u1"
  /\ Len(op.before) = 3
  /\ \E i \in 1 .. 3 : op.before[i].id = "u1" /\ op.before[i].host # op.saved.host
  /\ Others(config, "u1") = TwoProfiles

\* C28: a start of the tool after a save loads the list of the last save,
\* and does not remove the file.
C28_LoadYieldsLastSave ==
  (op.kind = "start" /\ op.ok /\ op.file0.exists) =>
    (config = op.file0.saved /\ file = op.file0)

\* C24: a topic discovery ends in a value, not in a panic: after a
\* successful one the profile's topics are the names the cluster listed and
\* its message is the success text; after a failed one its message is the
\* error text and its topics are the ones it had; nothing else of the
\* profile changes.
C24_DiscoveryReturnsItsOutcome ==
  op.kind = "discover" =>
    /\ pc = "idle"
    /\ op.after = (IF op.on = 0 THEN temp_config ELSE config[op.on])
    /\ op.after.id = op.before.id
    /\ op.after.host = op.before.host
    /\ op.outcome = "ok" => (op.after.topics = op.names /\ op.after.message = MSG_OK)
    /\ op.outcome # "ok" =>
         (op.after.topics = op.before.topics /\ op.after.message = MSG_FAILED)

\* A discovery failed on a stored profile that an earlier discovery had
\* filled with both topics.
C24_Witness ==
  /\ op.kind = "discover"
  /\ op.on = 1
  /\ op.outcome = "err"
  /\ op.before.message = MSG_OK
  /\ config[1].topics = {"t1", "t2"}
  /\ config[1].message = MSG_FAILED

\* C29: a topic click that opens the list page leaves in current_config the
\* hosts stored for the selected profile's id, and no producer built from
\* other hosts.
C29_SelectedHostsAreStored ==
  [][(panel_id' = "list" /\ panel_id # "list") =>
       \E i \in 1 .. Len(config') :
         /\ config'[i].id = current_config'.id
         /\ config'[i].host = current_config'.host
         /\ kafka_producer' \in {"", config'[i].host}]_vars

====
